---- MODULE Spec2Model ----
(***************************************************************************)
(* Model of the USB DFU bootloader core of emard/had2019-playground:       *)
(* the DFU protocol machine and double buffer (usb_dfu.c) together with    *)
(* the flash writer task and the SPI NOR verify transfer (spi.c).          *)
(*                                                                         *)
(* Sizes are scaled: a buffer / erase sector of 4096 bytes is BufSize      *)
(* bytes, a 256-byte flash page is PageSize bytes, the 24-bit flash        *)
(* address space is MemSize bytes.  Byte values keep their 8-bit width.    *)
(***************************************************************************)
EXTENDS Integers, Sequences, FiniteSets, TLC

\* ---- bounds of the model ------------------------------------------------
BufSize     == 2    \* bytes per buffer slot and per erase sector (4096 in the source)
PageSize    == 1    \* bytes per flash page (256 in the source)
ZoneSectors == 3    \* sectors of the internal download zone
MaxDnload   == 3    \* data requests in one run of the download pipeline
RunXfers    == 2    \* data requests in one run of the whole machine

\* ---- program constants --------------------------------------------------
PROG_RETRY       == 4
DFU_HOST_POLL_MS == 5
U8               == 256
ERASED           == 255

\* byte values the host and the initial flash content are drawn from
Bytes == {0, ERASED}

\* flash address space of one chip: addresses are truncated to it the way
\* the three address bytes of a command truncate to 24 bits
MemSize == BufSize * (ZoneSectors + 1)
Chips   == {"FLASHCHIP_INTERNAL", "FLASHCHIP_CART"}

\* enum dfu_state, in the order of the rows of dfu_valid_req
DfuStates ==
  <<"appIDLE", "appDETACH", "dfuIDLE", "dfuDNLOAD_SYNC", "dfuDNBUSY",
    "dfuDNLOAD_IDLE", "dfuMANIFEST_SYNC", "dfuMANIFEST",
    "dfuMANIFEST_WAIT_RESET", "dfuUPLOAD_IDLE", "dfuERROR">>

\* DFU class requests, bRequest 0..6
DfuRequests ==
  <<"DETACH", "DNLOAD", "UPLOAD", "GETSTATUS", "CLRSTATUS", "GETSTATE", "ABORT">>

Range(s) == {s[i] : i \in DOMAIN s}

\* mutant of the gating table: the dfuERROR row also has the ABORT bit
mut_valid_req_abort ==
  [s \in Range(DfuStates) |->
     CASE s = "appIDLE"          -> {"DETACH", "GETSTATUS", "GETSTATE"}
       [] s = "appDETACH"        -> {"GETSTATUS", "GETSTATE"}
       [] s = "dfuIDLE"          -> {"DETACH", "DNLOAD", "UPLOAD", "GETSTATUS", "GETSTATE", "ABORT"}
       [] s = "dfuDNLOAD_SYNC"   -> {"DNLOAD", "GETSTATUS", "GETSTATE", "ABORT"}
       [] s = "dfuDNBUSY"        -> {}
       [] s = "dfuDNLOAD_IDLE"   -> {"DNLOAD", "GETSTATUS", "GETSTATE", "ABORT"}
       [] s = "dfuMANIFEST_SYNC" -> {"GETSTATUS", "GETSTATE", "ABORT"}
       [] s = "dfuMANIFEST"      -> {}
       [] s = "dfuMANIFEST_WAIT_RESET" -> {}
       [] s = "dfuUPLOAD_IDLE"   -> {"UPLOAD", "GETSTATUS", "GETSTATE", "ABORT"}
       [] s = "dfuERROR"         -> {"GETSTATUS", "CLRSTATUS", "GETSTATE", "ABORT"}]

\* the state gating table: the requests whose bit is set in each row
dfu_valid_req ==
  [s \in Range(DfuStates) |->
     CASE s = "appIDLE"          -> {"DETACH", "GETSTATUS", "GETSTATE"}
       [] s = "appDETACH"        -> {"GETSTATUS", "GETSTATE"}
       [] s = "dfuIDLE"          -> {"DETACH", "DNLOAD", "UPLOAD", "GETSTATUS", "GETSTATE", "ABORT"}
       [] s = "dfuDNLOAD_SYNC"   -> {"DNLOAD", "GETSTATUS", "GETSTATE", "ABORT"}
       [] s = "dfuDNBUSY"        -> {}
       [] s = "dfuDNLOAD_IDLE"   -> {"DNLOAD", "GETSTATUS", "GETSTATE", "ABORT"}
       [] s = "dfuMANIFEST_SYNC" -> {"GETSTATUS", "GETSTATE", "ABORT"}
       [] s = "dfuMANIFEST"      -> {}
       [] s = "dfuMANIFEST_WAIT_RESET" -> {}
       [] s = "dfuUPLOAD_IDLE"   -> {"UPLOAD", "GETSTATUS", "GETSTATE", "ABORT"}
       [] s = "dfuERROR"         -> {"GETSTATUS", "CLRSTATUS", "GETSTATE"}]

\* the zone table, scaled: a multi-sector zone of the internal chip that
\* starts above address 0 and ends at the top of the address space (zones
\* 0, 2, 3, 4 of the source), and the cart zone of one page at address 0
dfu_zones ==
  <<[flashsel |-> "FLASHCHIP_INTERNAL", start |-> BufSize, end |-> MemSize],
    [flashsel |-> "FLASHCHIP_CART",     start |-> 0,       end |-> PageSize]>>

\* ---- integer helpers ----------------------------------------------------
\* uint32_t addition and subtraction of the address cursors; the cursors of
\* the model stay far below 2^32, where neither wraps
Add32(a, b) == a + b
Sub32(a, b) == a - b
Min(a, b)   == IF a < b THEN a ELSE b

RECURSIVE AndBits(_, _, _)
AndBits(a, b, n) ==
  IF n = 0 THEN 0
  ELSE ((a % 2) * (b % 2)) + 2 * AndBits(a \div 2, b \div 2, n - 1)

\* bitwise and of two bytes
And8(a, b) == AndBits(a, b, 8)

\* ---- the SPI NOR flash (hardware behind spi_xfer) -------------------------
\* mem: content of each chip; sel: chip routed to the bus; wp: the chip
\* ignores erase and program commands (write protection).  The busy flag
\* (SR1 bit 0) is not kept: the value flash_read_sr() returns is an input of
\* each writer tick
FlashAddr(addr) == addr % MemSize

\* flashchip_select(): external hook, routes the bus to a chip
flashchip_select(hw, chip) == [hw EXCEPT !.sel = chip]

\* flash_read(): len bytes from addr of the selected chip
flash_read(hw, addr, len) ==
  [i \in 0..(len - 1) |-> hw.mem[hw.sel][FlashAddr(addr + i)]]

\* flash_sector_erase(): the sector containing addr becomes all ones
flash_sector_erase(hw, addr) ==
  LET base == (FlashAddr(addr) \div BufSize) * BufSize
  IN [hw EXCEPT
        !.mem[hw.sel] =
           IF hw.wp THEN @
           ELSE [a \in DOMAIN @ |->
                   IF a >= base /\ a < base + BufSize THEN ERASED ELSE @[a]]]

\* flash_page_program(): bits are and-ed into the page; the address wraps
\* inside the page of addr
flash_page_program(hw, src, addr, len) ==
  LET page == (FlashAddr(addr) \div PageSize) * PageSize
      at(i) == page + ((FlashAddr(addr) - page + i) % PageSize)
  IN [hw EXCEPT
        !.mem[hw.sel] =
           IF hw.wp THEN @
           ELSE [a \in DOMAIN @ |->
                   IF \E i \in 0..(len - 1) : at(i) = a
                   THEN And8(@[a], src[CHOOSE i \in 0..(len - 1) : at(i) = a])
                   ELSE @[a]]]

\* mutant of the accumulation: should_w is assigned, not or-ed, so it keeps
\* the comparison of the last byte only
RECURSIVE mut_acc_last_byte(_, _, _, _)
mut_acc_last_byte(e, a, i, acc) ==
  IF i = Len(e) + 1 THEN acc
  ELSE mut_acc_last_byte(e, a, i + 1,
         [should_e  |-> IF And8(e[i], a[i]) # e[i] THEN 1 ELSE acc.should_e,
          should_w  |-> IF e[i] # a[i] THEN 2 ELSE 0,
          should_ew |-> IF e[i] # ERASED THEN 3
                        ELSE IF acc.should_ew = 3 THEN 3 ELSE 1])

\* spi_xfer_verify(): the three accumulators over the read chunk and the
\* value returned from them; e is the caller's buffer, a the bytes read
RECURSIVE VerifyAcc(_, _, _, _)
VerifyAcc(e, a, i, acc) ==
  IF i = Len(e) + 1 THEN acc
  ELSE VerifyAcc(e, a, i + 1,
         [should_e  |-> IF And8(e[i], a[i]) # e[i] THEN 1 ELSE acc.should_e,
          should_w  |-> IF e[i] # a[i] THEN 2 ELSE acc.should_w,
          should_ew |-> IF e[i] # ERASED THEN 3
                        ELSE IF acc.should_ew = 3 THEN 3 ELSE 1])

\* mutant of the return: erase needed is always reported as erase and write
mut_verify_erase_write(e, a) ==
  LET acc == VerifyAcc(e, a, 1, [should_e |-> 0, should_w |-> 0, should_ew |-> 0])
  IN IF acc.should_e # 0 THEN 3 ELSE acc.should_w

spi_xfer_verify(e, a) ==
  LET acc == VerifyAcc(e, a, 1, [should_e |-> 0, should_w |-> 0, should_ew |-> 0])
  IN IF acc.should_e # 0 THEN acc.should_ew ELSE acc.should_w

\* the caller's buffer after spi_xfer_verify(): the read chunk is compared
\* byte by byte and never stored into
spi_xfer_verify_data(e, a) == e

\* flash_verify(): read len bytes at addr and classify them against dst
flash_verify(hw, dst, addr, len) ==
  LET a == flash_read(hw, addr, len)
  IN spi_xfer_verify([i \in 1..len |-> dst[i - 1]], [i \in 1..len |-> a[i - 1]])

\* ---- the machine a handler runs on ----------------------------------------
\* g: the g_dfu aggregate; retry: prog_retry; should: the static of
\* _dfu_tick; hw: the flash; spi: the flash commands issued by the running
\* handler; reboots: calls of usb_dfu_cb_reboot() made by it; io: the chip,
\* address and length of each erase and page program among those commands
Machine(g, retry, sh, hw) ==
  [g |-> g, retry |-> retry, should |-> sh, hw |-> hw, spi |-> <<>>, reboots |-> 0,
   io |-> <<>>]

\* the arguments of an erase or page program command, on the selected chip
FlashCmd(m, op, addr, len) ==
  [op |-> op, chip |-> m.hw.sel, addr |-> addr, len |-> len]

\* byte k of the two slots taken as one array, as &data[rd][ofs] reads it
DataByte(g, k) == g.buf.data[k \div BufSize][k % BufSize]

\* the len bytes at &g_dfu.buf.data[slot][ofs]
BufAt(g, slot, ofs, len) ==
  [i \in 0..(len - 1) |-> DataByte(g, slot * BufSize + ofs + i)]

\* usb_dfu_cb_reboot(): the weak default does nothing; the call is counted
usb_dfu_cb_reboot(m) == [m EXCEPT !.reboots = @ + 1]

\* mutant of the give-up branch: the program cursor moves past the buffer
mut_giveup_advances(m) ==
  usb_dfu_cb_reboot(
    [m EXCEPT !.g.flash.op = "FL_IDLE",
              !.g.flash.addr_prog = Add32(@, m.g.flash.op_len),
              !.g.buf.rd   = 1 - @,
              !.g.buf.used = (@ + U8 - 1) % U8])

\* mutant of the give-up branch: the abandoned buffer stays counted
mut_giveup_keeps_used(m) ==
  usb_dfu_cb_reboot(
    [m EXCEPT !.g.flash.op = "FL_IDLE",
              !.g.buf.rd   = 1 - @])

\* _dfu_tick(), the branch taken when prog_retry == 0
tick_giveup(m) ==
  usb_dfu_cb_reboot(
    [m EXCEPT !.g.flash.op = "FL_IDLE",
              !.g.buf.rd   = 1 - @,
              !.g.buf.used = (@ + U8 - 1) % U8])

\* mutant of the erase block: an erase does not use up a retry
mut_erase_keeps_retry(m) ==
  IF m.g.flash.op # "FL_ERASE" THEN m
  ELSE
    LET sh == flash_verify(m.hw, BufAt(m.g, m.g.buf.rd, m.g.flash.op_ofs, BufSize),
                           m.g.flash.addr_prog, BufSize)
        m1 == [m EXCEPT !.should = sh, !.spi = Append(@, "verify")]
    IN IF sh % 2 = 0
       THEN [m1 EXCEPT !.g.flash.addr_erase = Add32(m.g.flash.addr_prog, BufSize),
                       !.g.flash.op = "FL_PROGRAM"]
       ELSE [m1 EXCEPT !.hw = flash_sector_erase(@, m.g.flash.addr_prog),
                       !.spi = Append(@, "erase"),
                       !.io = Append(@, FlashCmd(m, "erase", m.g.flash.addr_prog, BufSize)),
                       !.g.flash.addr_erase = Add32(m.g.flash.addr_prog, BufSize)]

\* mutant of the erase block: after starting the erase it moves on to the
\* programming step in the same invocation
mut_erase_then_program(m) ==
  IF m.g.flash.op # "FL_ERASE" THEN m
  ELSE
    LET sh == flash_verify(m.hw, BufAt(m.g, m.g.buf.rd, m.g.flash.op_ofs, BufSize),
                           m.g.flash.addr_prog, BufSize)
        m1 == [m EXCEPT !.should = sh, !.spi = Append(@, "verify")]
    IN IF sh % 2 = 0
       THEN [m1 EXCEPT !.g.flash.addr_erase = Add32(m.g.flash.addr_prog, BufSize),
                       !.g.flash.op = "FL_PROGRAM"]
       ELSE [m1 EXCEPT !.retry = IF @ # 0 THEN @ - 1 ELSE @,
                       !.hw = flash_sector_erase(@, m.g.flash.addr_prog),
                       !.spi = Append(@, "erase"),
                       !.io = Append(@, FlashCmd(m, "erase", m.g.flash.addr_prog, BufSize)),
                       !.g.flash.addr_erase = Add32(m.g.flash.addr_prog, BufSize),
                       !.g.flash.op = "FL_PROGRAM"]

\* _dfu_tick(), the block "if (g_dfu.flash.op == FL_ERASE)"
tick_erase(m) ==
  IF m.g.flash.op # "FL_ERASE" THEN m
  ELSE
    LET sh == flash_verify(m.hw, BufAt(m.g, m.g.buf.rd, m.g.flash.op_ofs, BufSize),
                           m.g.flash.addr_prog, BufSize)
        m1 == [m EXCEPT !.should = sh, !.spi = Append(@, "verify")]
    IN IF sh % 2 = 0
       THEN [m1 EXCEPT !.g.flash.addr_erase = Add32(m.g.flash.addr_prog, BufSize),
                       !.g.flash.op = "FL_PROGRAM"]
       ELSE [m1 EXCEPT !.retry = IF @ # 0 THEN @ - 1 ELSE @,
                       !.hw = flash_sector_erase(@, m.g.flash.addr_prog),
                       !.spi = Append(@, "erase"),
                       !.io = Append(@, FlashCmd(m, "erase", m.g.flash.addr_prog, BufSize)),
                       !.g.flash.addr_erase = Add32(m.g.flash.addr_prog, BufSize)]

\* mutant of the programming block: the commit does not reset prog_retry
mut_program_keeps_retry(m) ==
  IF m.g.flash.op # "FL_PROGRAM" THEN m
  ELSE IF (m.should \div 2) % 2 = 0
  THEN [m EXCEPT !.g.flash.addr_prog = Add32(@, m.g.flash.op_len),
                 !.g.buf.rd   = 1 - @,
                 !.g.buf.used = (@ + U8 - 1) % U8,
                 !.g.flash.op = "FL_IDLE"]
  ELSE IF m.g.flash.op_ofs = m.g.flash.op_len
  THEN [m EXCEPT !.retry = IF @ # 0 THEN @ - 1 ELSE @,
                 !.g.flash.op_len = BufSize,
                 !.g.flash.op_ofs = 0,
                 !.g.flash.op = "FL_IDLE"]
  ELSE
    LET addr == Add32(m.g.flash.addr_prog, m.g.flash.op_ofs)
        l    == Min(m.g.flash.op_len - m.g.flash.op_ofs, PageSize - (addr % PageSize))
    IN [m EXCEPT !.hw = flash_page_program(@, BufAt(m.g, m.g.buf.rd, m.g.flash.op_ofs, l), addr, l),
                 !.spi = Append(@, "program"),
                 !.io = Append(@, FlashCmd(m, "program", addr, l)),
                 !.g.flash.op_ofs = @ + l]

\* _dfu_tick(), the block "if (g_dfu.flash.op == FL_PROGRAM)"
tick_program(m) ==
  IF m.g.flash.op # "FL_PROGRAM" THEN m
  ELSE IF (m.should \div 2) % 2 = 0
  THEN [m EXCEPT !.retry = PROG_RETRY,
                 !.g.flash.addr_prog = Add32(@, m.g.flash.op_len),
                 !.g.buf.rd   = 1 - @,
                 !.g.buf.used = (@ + U8 - 1) % U8,
                 !.g.flash.op = "FL_IDLE"]
  ELSE IF m.g.flash.op_ofs = m.g.flash.op_len
  THEN [m EXCEPT !.retry = IF @ # 0 THEN @ - 1 ELSE @,
                 !.g.flash.op_len = BufSize,
                 !.g.flash.op_ofs = 0,
                 !.g.flash.op = "FL_IDLE"]
  ELSE
    LET addr == Add32(m.g.flash.addr_prog, m.g.flash.op_ofs)
        l    == Min(m.g.flash.op_len - m.g.flash.op_ofs, PageSize - (addr % PageSize))
    IN [m EXCEPT !.hw = flash_page_program(@, BufAt(m.g, m.g.buf.rd, m.g.flash.op_ofs, l), addr, l),
                 !.spi = Append(@, "program"),
                 !.io = Append(@, FlashCmd(m, "program", addr, l)),
                 !.g.flash.op_ofs = @ + l]

\* _dfu_tick(): one invocation of the flash writer task; sr is the value
\* flash_read_sr() returns when the tick reads it.  The programming block
\* runs on what the erase block left: tick_program(tick_erase(m2)), the
\* result of the erase block computed once
dfu_tick(m, sr) ==
  IF m.g.flash.op = "FL_IDLE" /\ m.g.buf.used = 0 THEN m
  ELSE IF m.g.flash.op # "FL_IDLE" /\ sr % 2 = 1 THEN m
  ELSE
    LET m1 == IF m.g.flash.op = "FL_IDLE"
              THEN [m EXCEPT !.g.flash.op = "FL_ERASE",
                             !.g.flash.op_len = BufSize,
                             !.g.flash.op_ofs = 0]
              ELSE m
        m2 == [m1 EXCEPT !.hw = flashchip_select(@, m1.g.flash.selected)]
    IN IF m2.retry = 0 THEN tick_giveup(m2)
       ELSE CHOOSE r \in {tick_program(e) : e \in {tick_erase(m2)}} : TRUE

\* "while (g_dfu.buf.used) _dfu_tick();" of the GETSTATUS handler: a tick
\* that finds the flash busy changes nothing, so the loop advances by the
\* ticks that find it ready
RECURSIVE dfu_drain(_)
dfu_drain(m) ==
  IF m.g.buf.used = 0 THEN m
  ELSE dfu_drain(dfu_tick(m, 0))

\* ---- the control request handler -------------------------------------------
\* a control transfer set up by a handler: its completion callback, the
\* length of its data phase and the slot its data pointer refers to
NoXfer == [cb |-> "none", len |-> 0, slot |-> 0]

\* what a handler hands back: the machine, the disposition, the transfer
\* and the bytes placed in the reply
Result(m, resp, xf, reply) == [m |-> m, resp |-> resp, xfer |-> xf, reply |-> reply]

\* _dfu_ctrl_req(), label "error"
ctrl_error(m) ==
  Result([m EXCEPT !.g.state = "dfuERROR", !.g.status = "errUNKNOWN"],
         "USB_FND_ERROR", NoXfer, <<>>)

\* _dfu_ctrl_req(), case USB_RT_DFU_DETACH
ctrl_detach(m) ==
  Result(m, "USB_FND_SUCCESS", [cb |-> "detach", len |-> 0, slot |-> 0], <<>>)

\* mutant of the tail fill: the tail is cleared to 0x00
mut_pad_zero(slotdata, len) ==
  IF len < BufSize
  THEN [i \in DOMAIN slotdata |-> IF i >= len THEN 0 ELSE slotdata[i]]
  ELSE slotdata

\* the memset of the tail of the slot when the transfer is shorter than it
dnload_pad(slotdata, len) ==
  IF len < BufSize
  THEN [i \in DOMAIN slotdata |-> IF i >= len THEN ERASED ELSE slotdata[i]]
  ELSE slotdata

\* mutant of the DNLOAD case: the bounds check rejects a transfer that ends
\* exactly at addr_end
mut_dnload_strict(m, wLength) ==
  IF wLength # 0
  THEN LET m1 == [m EXCEPT !.g.flash.addr_recv = Add32(@, wLength)]
       IN IF m1.g.flash.addr_recv >= m1.g.flash.addr_end
          THEN ctrl_error(m1)
          ELSE Result([m1 EXCEPT !.g.buf.data[m.g.buf.wr] = dnload_pad(@, wLength)],
                      "USB_FND_SUCCESS",
                      [cb |-> "dnload", len |-> wLength, slot |-> m.g.buf.wr], <<>>)
  ELSE Result([m EXCEPT !.g.state = "dfuMANIFEST_SYNC"], "USB_FND_SUCCESS", NoXfer, <<>>)

\* mutant of the DNLOAD case: the last transfer also rewinds the write index
mut_dnload_last_rewinds(m, wLength) ==
  IF wLength # 0
  THEN LET m1 == [m EXCEPT !.g.flash.addr_recv = Add32(@, wLength)]
       IN IF m1.g.flash.addr_recv > m1.g.flash.addr_end
          THEN ctrl_error(m1)
          ELSE Result([m1 EXCEPT !.g.buf.data[m.g.buf.wr] = dnload_pad(@, wLength)],
                      "USB_FND_SUCCESS",
                      [cb |-> "dnload", len |-> wLength, slot |-> m.g.buf.wr], <<>>)
  ELSE Result([m EXCEPT !.g.state = "dfuMANIFEST_SYNC", !.g.buf.wr = 0],
              "USB_FND_SUCCESS", NoXfer, <<>>)

\* mutant of the DNLOAD case: the bound is checked before the receive
\* cursor is advanced, a rejected DNLOAD leaves the cursor where it was
mut_dnload_check_first(m, wLength) ==
  IF wLength # 0
  THEN LET m1 == [m EXCEPT !.g.flash.addr_recv = Add32(@, wLength)]
       IN IF m1.g.flash.addr_recv > m1.g.flash.addr_end
          THEN ctrl_error(m)
          ELSE Result([m1 EXCEPT !.g.buf.data[m.g.buf.wr] = dnload_pad(@, wLength)],
                      "USB_FND_SUCCESS",
                      [cb |-> "dnload", len |-> wLength, slot |-> m.g.buf.wr], <<>>)
  ELSE Result([m EXCEPT !.g.state = "dfuMANIFEST_SYNC"], "USB_FND_SUCCESS", NoXfer, <<>>)

\* _dfu_ctrl_req(), case USB_RT_DFU_DNLOAD
ctrl_dnload(m, wLength) ==
  IF wLength # 0
  THEN LET m1 == [m EXCEPT !.g.flash.addr_recv = Add32(@, wLength)]
       IN IF m1.g.flash.addr_recv > m1.g.flash.addr_end
          THEN ctrl_error(m1)
          ELSE Result([m1 EXCEPT !.g.buf.data[m.g.buf.wr] = dnload_pad(@, wLength)],
                      "USB_FND_SUCCESS",
                      [cb |-> "dnload", len |-> wLength, slot |-> m.g.buf.wr], <<>>)
  ELSE Result([m EXCEPT !.g.state = "dfuMANIFEST_SYNC"], "USB_FND_SUCCESS", NoXfer, <<>>)

\* mutant of the UPLOAD case: the length is not clamped to the zone
mut_upload_no_clamp(m, wLength) ==
  LET len  == wLength
      rdat == flash_read(m.hw, m.g.flash.addr_read, len)
  IN IF len # 0
     THEN Result([m EXCEPT !.g.buf.data[0] =
                              [i \in DOMAIN @ |-> IF i < len THEN rdat[i] ELSE @[i]],
                           !.g.flash.addr_read = Add32(@, len),
                           !.spi = Append(@, "read")],
                 "USB_FND_SUCCESS", NoXfer, [i \in 1..len |-> rdat[i - 1]])
     ELSE Result(m, "USB_FND_SUCCESS", NoXfer, <<>>)

\* mutant of the UPLOAD case: an accepted UPLOAD enters dfuUPLOAD_IDLE
mut_upload_sets_upload_idle(m, wLength) ==
  LET len == IF Add32(m.g.flash.addr_read, wLength) > m.g.flash.addr_end
             THEN Sub32(m.g.flash.addr_end, m.g.flash.addr_read)
             ELSE wLength
      rdat == flash_read(m.hw, m.g.flash.addr_read, len)
  IN IF len # 0
     THEN Result([m EXCEPT !.g.buf.data[0] =
                              [i \in DOMAIN @ |-> IF i < len THEN rdat[i] ELSE @[i]],
                           !.g.flash.addr_read = Add32(@, len),
                           !.g.state = "dfuUPLOAD_IDLE",
                           !.spi = Append(@, "read")],
                 "USB_FND_SUCCESS", NoXfer, [i \in 1..len |-> rdat[i - 1]])
     ELSE Result([m EXCEPT !.g.state = "dfuUPLOAD_IDLE"], "USB_FND_SUCCESS", NoXfer, <<>>)

\* _dfu_ctrl_req(), case USB_RT_DFU_UPLOAD
ctrl_upload(m, wLength) ==
  LET len == IF Add32(m.g.flash.addr_read, wLength) > m.g.flash.addr_end
             THEN Sub32(m.g.flash.addr_end, m.g.flash.addr_read)
             ELSE wLength
      rdat == flash_read(m.hw, m.g.flash.addr_read, len)
  IN IF len # 0
     THEN Result([m EXCEPT !.g.buf.data[0] =
                              [i \in DOMAIN @ |-> IF i < len THEN rdat[i] ELSE @[i]],
                           !.g.flash.addr_read = Add32(@, len),
                           !.spi = Append(@, "read")],
                 "USB_FND_SUCCESS", NoXfer, [i \in 1..len |-> rdat[i - 1]])
     ELSE Result(m, "USB_FND_SUCCESS", NoXfer, <<>>)

\* the six bytes of the GETSTATUS reply
status_reply(status, state) ==
  <<status, DFU_HOST_POLL_MS % 256, (DFU_HOST_POLL_MS \div 256) % 256,
    (DFU_HOST_POLL_MS \div 65536) % 256, state, 0>>

\* mutant of the manifest shortcut: one tick instead of the drain loop
mut_manifest_one_tick(m) ==
  LET m1 == [m EXCEPT !.g.state = "dfuIDLE"]
  IN IF m1.g.buf.used # 0 THEN dfu_tick(m1, 0) ELSE m1

\* _dfu_ctrl_req(), case USB_RT_DFU_GETSTATUS, state dfuMANIFEST_SYNC
getstatus_manifest(m) ==
  dfu_drain([m EXCEPT !.g.state = "dfuIDLE"])

\* mutant of the dfuDNLOAD_SYNC report: busy as soon as one buffer is held
mut_sync_busy_at_one(m) ==
  IF m.g.buf.used < 1
  THEN [m |-> [m EXCEPT !.g.state = "dfuDNLOAD_IDLE"], state |-> "dfuDNLOAD_IDLE"]
  ELSE [m |-> m, state |-> "dfuDNBUSY"]

\* _dfu_ctrl_req(), case USB_RT_DFU_GETSTATUS, state dfuDNLOAD_SYNC: the
\* machine and the state to report
getstatus_dnload_sync(m) ==
  IF m.g.buf.used < 2
  THEN [m |-> [m EXCEPT !.g.state = "dfuDNLOAD_IDLE"], state |-> "dfuDNLOAD_IDLE"]
  ELSE [m |-> m, state |-> "dfuDNBUSY"]

\* _dfu_ctrl_req(), case USB_RT_DFU_GETSTATUS
ctrl_getstatus(m) ==
  LET r == IF m.g.state = "dfuDNLOAD_SYNC" THEN getstatus_dnload_sync(m)
           ELSE IF m.g.state = "dfuMANIFEST_SYNC"
           THEN [m |-> getstatus_manifest(m), state |-> "dfuIDLE"]
           ELSE [m |-> m, state |-> m.g.state]
  IN Result(r.m, "USB_FND_SUCCESS", NoXfer, status_reply(r.m.g.status, r.state))

\* mutant of the CLRSTATUS case: the receive cursor is rewound to the
\* program cursor
mut_clrstatus_rewinds(m) ==
  Result([m EXCEPT !.g.state = "dfuIDLE", !.g.status = "OK",
                   !.g.flash.addr_recv = m.g.flash.addr_prog],
         "USB_FND_SUCCESS", NoXfer, <<>>)

\* _dfu_ctrl_req(), case USB_RT_DFU_CLRSTATUS
ctrl_clrstatus(m) ==
  Result([m EXCEPT !.g.state = "dfuIDLE", !.g.status = "OK"],
         "USB_FND_SUCCESS", NoXfer, <<>>)

\* _dfu_ctrl_req(), case USB_RT_DFU_GETSTATE
ctrl_getstate(m) == Result(m, "USB_FND_SUCCESS", NoXfer, <<m.g.state>>)

\* mutant of the ABORT case: the held buffers are dropped
mut_abort_drops(m) ==
  Result([m EXCEPT !.g.state = "dfuIDLE", !.g.buf.used = 0, !.g.buf.rd = m.g.buf.wr],
         "USB_FND_SUCCESS", NoXfer, <<>>)

\* _dfu_ctrl_req(), case USB_RT_DFU_ABORT
ctrl_abort(m) ==
  Result([m EXCEPT !.g.state = "dfuIDLE"], "USB_FND_SUCCESS", NoXfer, <<>>)

\* _dfu_ctrl_req() for a class request to the DFU interface
dfu_ctrl_req(m, bRequest, wLength) ==
  IF bRequest \notin dfu_valid_req[m.g.state] THEN ctrl_error(m)
  ELSE CASE bRequest = "DETACH"    -> ctrl_detach(m)
         [] bRequest = "DNLOAD"    -> ctrl_dnload(m, wLength)
         [] bRequest = "UPLOAD"    -> ctrl_upload(m, wLength)
         [] bRequest = "GETSTATUS" -> ctrl_getstatus(m)
         [] bRequest = "CLRSTATUS" -> ctrl_clrstatus(m)
         [] bRequest = "GETSTATE"  -> ctrl_getstate(m)
         [] bRequest = "ABORT"     -> ctrl_abort(m)
         [] OTHER                  -> ctrl_error(m)

\* mutant of the commit: the write index is not flipped
mut_done_no_flip(g) ==
  [g EXCEPT !.buf.used = (@ + 1) % U8,
            !.state    = "dfuDNLOAD_SYNC"]

\* _dfu_dnload_done_cb()
dfu_dnload_done_cb(g) ==
  [g EXCEPT !.buf.wr   = 1 - @,
            !.buf.used = (@ + 1) % U8,
            !.state    = "dfuDNLOAD_SYNC"]

\* the interface descriptors SET_INTERFACE and GET_INTERFACE are called
\* with: the alternate settings of the DFU interface, and another interface
IntfDescs ==
  {[bInterfaceClass |-> 254, bInterfaceSubClass |-> 1, bInterfaceProtocol |-> 2,
    bInterfaceNumber |-> 0, bAlternateSetting |-> a] : a \in 0..(Len(dfu_zones) - 1)}
  \cup
  {[bInterfaceClass |-> 255, bInterfaceSubClass |-> 0, bInterfaceProtocol |-> 0,
    bInterfaceNumber |-> 1, bAlternateSetting |-> 0]}

IsDfuIntf(d) ==
  ~ (d.bInterfaceClass # 254 \/ d.bInterfaceSubClass # 1 \/ d.bInterfaceProtocol # 2)

\* mutant of _dfu_set_intf(): the read cursor is not reset
mut_set_intf_keeps_read(g, sel) ==
  IF ~ IsDfuIntf(sel) THEN [g |-> g, resp |-> "USB_FND_CONTINUE"]
  ELSE LET z == dfu_zones[sel.bAlternateSetting + 1]
       IN [g |-> [g EXCEPT !.state = "dfuIDLE",
                           !.intf  = sel.bInterfaceNumber,
                           !.alt   = sel.bAlternateSetting,
                           !.flash.addr_recv  = z.start,
                           !.flash.addr_prog  = z.start,
                           !.flash.addr_erase = z.start,
                           !.flash.addr_end   = z.end,
                           !.flash.selected   = z.flashsel],
           resp |-> "USB_FND_SUCCESS"]

\* _dfu_set_intf()
dfu_set_intf(g, sel) ==
  IF ~ IsDfuIntf(sel) THEN [g |-> g, resp |-> "USB_FND_CONTINUE"]
  ELSE LET z == dfu_zones[sel.bAlternateSetting + 1]
       IN [g |-> [g EXCEPT !.state = "dfuIDLE",
                           !.intf  = sel.bInterfaceNumber,
                           !.alt   = sel.bAlternateSetting,
                           !.flash.addr_recv  = z.start,
                           !.flash.addr_read  = z.start,
                           !.flash.addr_prog  = z.start,
                           !.flash.addr_erase = z.start,
                           !.flash.addr_end   = z.end,
                           !.flash.selected   = z.flashsel],
           resp |-> "USB_FND_SUCCESS"]

\* _dfu_get_intf(): the disposition and the value stored through alt
dfu_get_intf(g, base) ==
  IF ~ IsDfuIntf(base) THEN [resp |-> "USB_FND_CONTINUE", alt |-> <<>>]
  ELSE [resp |-> "USB_FND_SUCCESS", alt |-> <<g.alt>>]

\* _dfu_state_chg()
dfu_state_chg(g, state) ==
  IF state = "USB_DS_CONFIGURED" THEN [g EXCEPT !.state = "dfuIDLE"] ELSE g

\* _dfu_bus_reset(): the number of calls of the reboot hook
dfu_bus_reset(g) == IF g.state # "appDETACH" THEN 1 ELSE 0

\* ---- state ------------------------------------------------------------------
VARIABLES
  g_dfu,       \* the g_dfu aggregate
  prog_retry,  \* static unsigned prog_retry
  should,      \* static uint8_t should of _dfu_tick
  flash,       \* the SPI NOR flash chips
  xfer,        \* the control transfer whose data phase is in progress
  hist         \* history of the run: data requests counted, payloads committed,
               \* erases and programming passes spent on the buffer at rd,
               \* flash bytes programmed in the current programming pass

vars == <<g_dfu, prog_retry, should, flash, xfer, hist>>

\* the machine the handlers run on, and the state after a handler
Cur == Machine(g_dfu, prog_retry, should, flash)

\* usb_dfu_init(): the aggregate zeroed, state appDETACH
InitDfu ==
  [state |-> "appDETACH", status |-> "OK", intf |-> 0, alt |-> 0, tick |-> 0,
   buf   |-> [used |-> 0, wr |-> 0, rd |-> 0,
              data |-> [s \in 0..1 |-> [i \in 0..(BufSize - 1) |-> 0]]],
   flash |-> [addr_recv |-> 0, addr_read |-> 0, addr_prog |-> 0, addr_erase |-> 0,
              addr_end |-> 0, selected |-> "FLASHCHIP_INTERNAL",
              op_ofs |-> 0, op_len |-> 0, op |-> "FL_IDLE"]]

\* flash content before the run: every sector holds the pattern pat; the
\* chips are writable or write-protected
FlashWith(pat, w) ==
  [mem |-> [c \in Chips |-> [a \in 0..(MemSize - 1) |-> pat[a % BufSize]]],
   sel |-> "FLASHCHIP_INTERNAL", wp |-> w]

Fill(len, b) == [i \in 0..(len - 1) |-> b]

InitWith(flashes) ==
  /\ g_dfu = InitDfu
  /\ prog_retry = PROG_RETRY
  /\ should = 0
  /\ flash \in flashes
  /\ xfer = NoXfer
  /\ hist = [nData |-> 0, sent |-> <<>>, clean |-> FALSE, exhausted |-> FALSE,
             attempts |-> 0, overrun |-> FALSE, pass |-> {}, passbad |-> FALSE]

\* the machine m becomes the state
Store(m) ==
  /\ g_dfu' = m.g
  /\ prog_retry' = m.retry
  /\ should' = m.should
  /\ flash' = m.hw

\* the sector erases among the flash commands of a handler
Erases(log) == Cardinality({i \in DOMAIN log : log[i] = "erase"})

\* a tick took the machine from pre to post: it released the buffer it
\* worked on; it completed a programming pass (op_ofs had reached op_len,
\* the writer goes back to idle to verify again)
Released(pre, post) == post.g.buf.used # pre.g.buf.used
PassDone(pre, post) ==
  /\ pre.g.flash.op = "FL_PROGRAM"
  /\ post.g.flash.op = "FL_IDLE"
  /\ ~ Released(pre, post)

\* the flash bytes an erase or page program command covers
CmdBytes(cmd) ==
  {[chip |-> cmd.chip, addr |-> cmd.addr + i] : i \in 0..(cmd.len - 1)}

\* the erases and programming passes spent on the buffer at rd, c, after a
\* tick from pre (with an empty command log) to post: counted up to one
\* past PROG_RETRY, started again when the buffer is released
\* pass: the flash bytes programmed since the writer last left FL_IDLE;
\* passbad: a byte was programmed twice in one pass, or a pass completed
\* having programmed something else than one run of BufSize consecutive
\* bytes of one chip
CountTick(pre, post, c) ==
  LET n == c.attempts + Erases(post.spi) + (IF PassDone(pre, post) THEN 1 ELSE 0)
      pass0 == IF pre.g.flash.op = "FL_IDLE" THEN {} ELSE c.pass
      new   == UNION {CmdBytes(post.io[k]) :
                        k \in {j \in DOMAIN post.io : post.io[j].op = "program"}}
      pass1 == pass0 \cup new
      block == \E b \in pass1 :
                 pass1 = {[chip |-> b.chip, addr |-> b.addr + i] : i \in 0..(BufSize - 1)}
  IN [attempts |-> IF Released(pre, post) THEN 0 ELSE Min(n, PROG_RETRY + 1),
      overrun  |-> c.overrun \/ n > PROG_RETRY,
      pass     |-> IF PassDone(pre, post) \/ Released(pre, post) THEN {} ELSE pass1,
      passbad  |-> \/ c.passbad
                   \/ pass0 \cap new # {}
                   \/ PassDone(pre, post) /\ ~ block]

\* the same over the ticks of the drain loop of GETSTATUS
RECURSIVE CountDrain(_, _)
CountDrain(m, c) ==
  IF m.g.buf.used = 0 THEN c
  ELSE LET m0 == [m EXCEPT !.spi = <<>>, !.io = <<>>]
           m1 == dfu_tick(m0, 0)
       IN CountDrain(m1, CountTick(m0, m1, c))

\* ---- actions ----------------------------------------------------------------
\* the main loop calls the writer task; the flash answers the status read
\* with sr
Tick(sr) ==
  \E m \in {dfu_tick(Cur, sr)} : \E c \in {CountTick(Cur, m, hist)} :
     /\ Store(m)
     /\ hist' = [hist EXCEPT !.exhausted = @ \/ m.reboots > 0,
                             !.attempts = c.attempts,
                             !.overrun = c.overrun,
                             !.pass = c.pass,
                             !.passbad = c.passbad]
     /\ UNCHANGED xfer

\* a request with a data phase: a DNLOAD with wLength > 0, or an UPLOAD
IsDataReq(bRequest, wLength) ==
  \/ bRequest = "DNLOAD" /\ wLength > 0
  \/ bRequest = "UPLOAD"

\* a class request to the DFU interface arrives on endpoint 0; the stack
\* takes a new request when the previous control transfer has completed;
\* a run holds at most maxd data requests
CtrlReq(bRequest, wLength, maxd) ==
  /\ xfer.cb = "none"
  /\ IsDataReq(bRequest, wLength) => hist.nData < maxd
  /\ LET r == dfu_ctrl_req(Cur, bRequest, wLength)
         full == bRequest = "DNLOAD" /\ wLength = BufSize /\ r.resp = "USB_FND_SUCCESS"
         c == IF bRequest = "GETSTATUS" /\ g_dfu.state = "dfuMANIFEST_SYNC"
                 /\ bRequest \in dfu_valid_req[g_dfu.state]
              THEN CountDrain(Cur, hist)
              ELSE hist
     IN /\ Store(r.m)
        /\ xfer' = r.xfer
        /\ hist' = [hist EXCEPT
                      !.nData = IF IsDataReq(bRequest, wLength) THEN @ + 1 ELSE @,
                      !.clean = @ /\ (full \/ bRequest = "GETSTATUS"),
                      !.exhausted = @ \/ r.m.reboots > 0,
                      !.attempts = c.attempts,
                      !.overrun = c.overrun,
                      !.pass = c.pass,
                      !.passbad = c.passbad]

\* a request that is not a class request to the DFU interface (wIndex is
\* another interface, or the request is a standard one): passed on with
\* USB_FND_CONTINUE, nothing changes
CtrlOther ==
  /\ xfer.cb = "none"
  /\ UNCHANGED vars

\* the data phase of a DNLOAD completes: the stack has stored the payload
\* through the data pointer of the transfer and calls the callback
DnloadDone(payload) ==
  /\ xfer.cb = "dnload"
  /\ DOMAIN payload = 0..(xfer.len - 1)
  /\ LET filled == [g_dfu EXCEPT !.buf.data[xfer.slot] =
                      [i \in DOMAIN @ |-> IF i < xfer.len THEN payload[i] ELSE @[i]]]
     IN g_dfu' = dfu_dnload_done_cb(filled)
  /\ xfer' = NoXfer
  /\ hist' = [hist EXCEPT !.sent = IF hist.clean THEN Append(@, payload) ELSE @]
  /\ UNCHANGED <<prog_retry, should, flash>>

\* the status phase of a DETACH completes: _dfu_detach_done_cb()
DetachDone ==
  /\ xfer.cb = "detach"
  /\ xfer' = NoXfer
  /\ hist' = [hist EXCEPT !.clean = FALSE]
  /\ UNCHANGED <<g_dfu, prog_retry, should, flash>>

\* SET_INTERFACE
SetIntf(sel) ==
  /\ xfer.cb = "none"
  /\ LET r == dfu_set_intf(g_dfu, sel)
     IN /\ g_dfu' = r.g
        /\ hist' = IF r.resp = "USB_FND_SUCCESS"
                   THEN [hist EXCEPT
                           !.sent = <<>>,
                           !.clean = g_dfu.buf.used = 0 /\ g_dfu.flash.op = "FL_IDLE"]
                   ELSE hist
  /\ UNCHANGED <<prog_retry, should, flash, xfer>>

\* GET_INTERFACE: answers, changes nothing
GetIntf(base) ==
  /\ xfer.cb = "none"
  /\ dfu_get_intf(g_dfu, base).resp \in {"USB_FND_SUCCESS", "USB_FND_CONTINUE"}
  /\ UNCHANGED vars

\* the USB device state changes
StateChg(state) ==
  /\ xfer.cb = "none"
  /\ g_dfu' = dfu_state_chg(g_dfu, state)
  /\ hist' = [hist EXCEPT !.clean = FALSE]
  /\ UNCHANGED <<prog_retry, should, flash, xfer>>

\* a bus reset: the reboot hook is called unless the state is appDETACH
BusReset ==
  /\ xfer.cb = "none"
  /\ hist' = [hist EXCEPT !.clean = @ /\ dfu_bus_reset(g_dfu) = 0]
  /\ UNCHANGED <<g_dfu, prog_retry, should, flash, xfer>>

\* ---- specifications -----------------------------------------------------------
\* the events of the download pipeline: writer ticks, the class requests
\* reqs with transfer lengths lens, at most maxd of them DNLOADs with data,
\* and data phases carrying the bytes fills
Pipeline(reqs, lens, maxd, fills) ==
  \/ \E sr \in {0, 1} : Tick(sr)
  \/ \E r \in reqs : \E w \in lens :
        /\ (r \notin {"DNLOAD", "UPLOAD"} => w = 0)
        /\ CtrlReq(r, w, maxd)
  \/ \E b \in fills : DnloadDone(Fill(xfer.len, b))

Others ==
  \/ CtrlOther
  \/ DetachDone
  \/ \E d \in IntfDescs : SetIntf(d)
  \/ \E d \in IntfDescs : GetIntf(d)
  \/ \E s \in {"USB_DS_DEFAULT", "USB_DS_CONFIGURED"} : StateChg(s)
  \/ BusReset

\* the whole machine: every event, on an erased flash that is writable or
\* write-protected
Init == InitWith({FlashWith(Fill(BufSize, ERASED), w) : w \in BOOLEAN})

Next == Pipeline(Range(DfuRequests), 0..BufSize, RunXfers, {0}) \/ Others

Spec == Init /\ [][Next]_vars

\* the download pipeline: a zone is selected once, then DNLOADs, GETSTATUS
\* and writer ticks in any order, on any flash
Select == g_dfu.state = "appDETACH" /\ \E d \in IntfDescs : SetIntf(d)

InitDownload ==
  InitWith({FlashWith(Fill(BufSize, b), w) : b \in Bytes, w \in BOOLEAN})

NextDownload ==
  Pipeline({"DNLOAD", "GETSTATUS"}, 0..BufSize, MaxDnload, Bytes) \/ Select

SpecDownload == InitDownload /\ [][NextDownload]_vars

\* the writer draining what the host has committed: a zone is selected
\* once, then DNLOADs and writer ticks in any order, on any flash; the main
\* loop keeps calling the writer and the flash does not stay busy forever,
\* so a tick that finds the flash ready is eventually taken
NextDrain ==
  Pipeline({"DNLOAD"}, 0..BufSize, MaxDnload, Bytes) \/ Select

SpecDrain == InitDownload /\ [][NextDrain]_vars /\ WF_vars(Tick(0))

\* the verify transfer alone: any expected buffer against any flash content;
\* the bytes cover no bit, some bits and all bits set
VerifyBytes == {0, 15, 240, ERASED}

InitVerify ==
  /\ \E e \in [0..(BufSize - 1) -> VerifyBytes] :
        g_dfu = [InitDfu EXCEPT !.buf.data[0] = e]
  /\ flash \in {FlashWith(a, FALSE) : a \in [0..(BufSize - 1) -> VerifyBytes]}
  /\ prog_retry = PROG_RETRY
  /\ should = 0
  /\ xfer = NoXfer
  /\ hist = [nData |-> 0, sent |-> <<>>, clean |-> FALSE, exhausted |-> FALSE,
             attempts |-> 0, overrun |-> FALSE, pass |-> {}, passbad |-> FALSE]

\* flash_verify() of the first len bytes of slot 0 against the flash at the
\* start of the first zone; hist.sent keeps the buffer as it was handed in
Verify(len) ==
  /\ hist.sent = <<>>
  /\ LET dst == g_dfu.buf.data[0]
         act == flash_read(flash, dfu_zones[1].start, len)
         e   == [i \in 1..len |-> dst[i - 1]]
         a   == [i \in 1..len |-> act[i - 1]]
         e2  == spi_xfer_verify_data(e, a)
     IN /\ should' = flash_verify(flash, dst, dfu_zones[1].start, len)
        /\ g_dfu' = [g_dfu EXCEPT !.buf.data[0] =
                        [i \in DOMAIN @ |-> IF i < len THEN e2[i + 1] ELSE @[i]]]
        /\ hist' = [hist EXCEPT !.sent = <<e>>]
  /\ UNCHANGED <<prog_retry, flash, xfer>>

NextVerify == \E len \in 1..BufSize : Verify(len)

SpecVerify == InitVerify /\ [][NextVerify]_vars

\* ---- properties ----------------------------------------------------------------
\* the zone selected by the last SET_INTERFACE
Zone == dfu_zones[g_dfu.alt + 1]

\* a SET_INTERFACE has selected a zone (every zone ends above address 0)
ZoneSelected == g_dfu.flash.addr_end # 0

\* C1: in every reachable state the occupancy counter used is 0, 1 or 2.
C1_UsedInRange == g_dfu.buf.used \in {0, 1, 2}

\* C2: in every reachable state used == 0 implies wr == rd, used == 2
\* implies wr == rd, and used == 1 implies wr != rd.
C2_IndexOccupancy ==
  /\ g_dfu.buf.used = 0 => g_dfu.buf.wr = g_dfu.buf.rd
  /\ g_dfu.buf.used = 2 => g_dfu.buf.wr = g_dfu.buf.rd
  /\ g_dfu.buf.used = 1 => g_dfu.buf.wr # g_dfu.buf.rd

\* two buffers were committed and the writer has released the first
C2_Witness ==
  /\ g_dfu.buf.used = 1
  /\ g_dfu.buf.wr = 0
  /\ g_dfu.buf.rd = 1

\* C3: once SET_INTERFACE has selected a zone, every reachable state has
\* addr_prog <= addr_recv <= addr_end.
C3_CursorOrder ==
  ZoneSelected =>
    /\ g_dfu.flash.addr_prog <= g_dfu.flash.addr_recv
    /\ g_dfu.flash.addr_recv <= g_dfu.flash.addr_end

\* the bytes of flash from the start of the zone that the committed
\* payloads cover
FlashHoldsPayloads ==
  \A k \in 1..Len(hist.sent) : \A i \in 0..(BufSize - 1) :
     flash.mem[g_dfu.flash.selected][FlashAddr(Zone.start + (k - 1) * BufSize + i)]
       = hist.sent[k][i]

\* C4: from a SET_INTERFACE with an empty buffer and an idle writer, once N
\* full-size DNLOADs have been committed, interleaved only with writer
\* ticks and GETSTATUS, and the writer has drained without retry
\* exhaustion, a writable flash holds the N payloads in order from the start
\* of the zone.
C4_FlashEqualsPayloads ==
  ( /\ hist.clean
    /\ ~ flash.wp
    /\ ~ hist.exhausted
    /\ xfer.cb = "none"
    /\ g_dfu.buf.used = 0
    /\ g_dfu.flash.op = "FL_IDLE" )
  => FlashHoldsPayloads

\* the machine, but for the handler's log, is the same in m1 and m2
SameMachine(m1, m2) ==
  /\ m1.g = m2.g
  /\ m1.retry = m2.retry
  /\ m1.should = m2.should
  /\ m1.hw = m2.hw

\* the gating table as the specification gives it
GatingTable ==
  [s \in Range(DfuStates) |->
     CASE s \in {"dfuDNBUSY", "dfuMANIFEST", "dfuMANIFEST_WAIT_RESET"} -> {}
       [] s = "appIDLE"   -> {"DETACH", "GETSTATUS", "GETSTATE"}
       [] s = "appDETACH" -> {"GETSTATUS", "GETSTATE"}
       [] s = "dfuIDLE"   -> {"DETACH", "DNLOAD", "UPLOAD", "GETSTATUS", "GETSTATE", "ABORT"}
       [] s \in {"dfuDNLOAD_SYNC", "dfuDNLOAD_IDLE"} -> {"DNLOAD", "GETSTATUS", "GETSTATE", "ABORT"}
       [] s = "dfuMANIFEST_SYNC" -> {"GETSTATUS", "GETSTATE", "ABORT"}
       [] s = "dfuUPLOAD_IDLE"   -> {"UPLOAD", "GETSTATUS", "GETSTATE", "ABORT"}
       [] s = "dfuERROR"  -> {"GETSTATUS", "CLRSTATUS", "GETSTATE"}]

\* C5: a class request that the row of the current state does not allow is
\* not handled: the state becomes dfuERROR, the status errUNKNOWN, the
\* transfer is rejected, and nothing else changes; the rows are those of
\* the table (none for dfuDNBUSY, dfuMANIFEST, dfuMANIFEST_WAIT_RESET;
\* GETSTATUS, CLRSTATUS, GETSTATE for dfuERROR).
C5_Gating ==
  /\ \A s \in Range(DfuStates) : dfu_valid_req[s] = GatingTable[s]
  /\ \A r \in Range(DfuRequests) : \A w \in 0..BufSize :
       r \notin GatingTable[g_dfu.state] =>
         LET res == dfu_ctrl_req(Cur, r, w)
         IN /\ res.resp = "USB_FND_ERROR"
            /\ res.xfer = NoXfer
            /\ res.m.g = [g_dfu EXCEPT !.state = "dfuERROR", !.status = "errUNKNOWN"]
            /\ res.m.g.buf = g_dfu.buf
            /\ res.m.g.flash = g_dfu.flash
            /\ res.m.retry = prog_retry /\ res.m.should = should /\ res.m.hw = flash
            /\ res.m.spi = <<>>

\* a request was refused by the table while a buffer was held: the state
\* is dfuERROR although no DNLOAD ran past the end of the zone
C5_Witness ==
  /\ g_dfu.state = "dfuERROR"
  /\ g_dfu.status = "errUNKNOWN"
  /\ ZoneSelected
  /\ g_dfu.flash.addr_recv <= g_dfu.flash.addr_end
  /\ g_dfu.buf.used = 1

\* C6: where the table allows DNLOAD, a DNLOAD with wLength > 0 is accepted
\* exactly when addr_recv + wLength <= addr_end; otherwise it is rejected,
\* the state becomes dfuERROR with errUNKNOWN, no buffer is committed, and
\* CLRSTATUS followed by GETSTATE returns dfuIDLE.
C6_DnloadBounds ==
  "DNLOAD" \in GatingTable[g_dfu.state] =>
    \A w \in 1..BufSize :
      LET res  == dfu_ctrl_req(Cur, "DNLOAD", w)
          fits == g_dfu.flash.addr_recv + w <= g_dfu.flash.addr_end
          clr  == dfu_ctrl_req(res.m, "CLRSTATUS", 0)
          gst  == dfu_ctrl_req(clr.m, "GETSTATE", 0)
      IN /\ (res.resp = "USB_FND_SUCCESS") <=> fits
         /\ fits => /\ res.xfer = [cb |-> "dnload", len |-> w, slot |-> g_dfu.buf.wr]
                    /\ res.m.g.state = g_dfu.state
         /\ ~ fits => /\ res.resp = "USB_FND_ERROR"
                      /\ res.xfer = NoXfer
                      /\ res.m.g.state = "dfuERROR"
                      /\ res.m.g.status = "errUNKNOWN"
                      /\ res.m.g.buf = g_dfu.buf
                      /\ clr.resp = "USB_FND_SUCCESS"
                      /\ gst.resp = "USB_FND_SUCCESS"
                      /\ gst.reply = <<"dfuIDLE">>

\* a DNLOAD was rejected for running past the end of the selected zone
C6_Witness ==
  /\ ZoneSelected
  /\ g_dfu.state = "dfuERROR"
  /\ g_dfu.status = "errUNKNOWN"
  /\ g_dfu.flash.addr_recv > g_dfu.flash.addr_end

\* C7: GETSTATUS in dfuDNLOAD_SYNC reports dfuDNLOAD_IDLE and stores it when
\* used < 2, and reports dfuDNBUSY and leaves dfuDNLOAD_SYNC stored when
\* used >= 2; in a state other than dfuDNLOAD_SYNC and dfuMANIFEST_SYNC it
\* reports the stored state and changes nothing; the reply is
\* [status, 5, 0, 0, reported state, 0].
C7_GetStatus ==
  "GETSTATUS" \in GatingTable[g_dfu.state] =>
    LET res == dfu_ctrl_req(Cur, "GETSTATUS", 0)
        reported == res.reply[5]
    IN /\ res.resp = "USB_FND_SUCCESS"
       /\ res.reply = <<res.m.g.status, 5, 0, 0, reported, 0>>
       /\ res.m.g.status = g_dfu.status
       /\ (g_dfu.state = "dfuDNLOAD_SYNC" /\ g_dfu.buf.used < 2) =>
             /\ reported = "dfuDNLOAD_IDLE"
             /\ res.m.g = [g_dfu EXCEPT !.state = "dfuDNLOAD_IDLE"]
       /\ (g_dfu.state = "dfuDNLOAD_SYNC" /\ g_dfu.buf.used >= 2) =>
             /\ reported = "dfuDNBUSY"
             /\ res.m.g = g_dfu
       /\ g_dfu.state \notin {"dfuDNLOAD_SYNC", "dfuMANIFEST_SYNC"} =>
             /\ reported = g_dfu.state
             /\ SameMachine(res.m, Cur)

\* both slots are held in dfuDNLOAD_SYNC, where GETSTATUS reports dfuDNBUSY
C7_Witness ==
  /\ g_dfu.state = "dfuDNLOAD_SYNC"
  /\ g_dfu.buf.used = 2
  /\ xfer.cb = "none"
  /\ dfu_ctrl_req(Cur, "GETSTATUS", 0).reply[5] = "dfuDNBUSY"

\* C8: GETSTATUS in dfuMANIFEST_SYNC stores dfuIDLE, runs the writer until
\* used == 0 and reports dfuIDLE; when the reply is produced used == 0, the
\* writer is idle and the read index has caught up with the write index.
C8_ManifestDrain ==
  g_dfu.state = "dfuMANIFEST_SYNC" =>
    LET res == dfu_ctrl_req(Cur, "GETSTATUS", 0)
    IN /\ res.resp = "USB_FND_SUCCESS"
       /\ res.reply = <<g_dfu.status, 5, 0, 0, "dfuIDLE", 0>>
       /\ res.m.g.state = "dfuIDLE"
       /\ res.m.g.buf.used = 0
       /\ res.m.g.flash.op = "FL_IDLE"
       /\ res.m.g.buf.wr = g_dfu.buf.wr
       /\ res.m.g.buf.rd = res.m.g.buf.wr

\* the drain has two buffers to consume and issues flash commands for them
C8_Witness ==
  /\ g_dfu.state = "dfuMANIFEST_SYNC"
  /\ g_dfu.buf.used = 2
  /\ Len(dfu_ctrl_req(Cur, "GETSTATUS", 0).m.spi) > 2

\* C9: while the data phase of an accepted DNLOAD is in progress the slot
\* of the transfer is data[wr] and its bytes from wLength on are 0xFF; the
\* completion flips wr, adds one to used, stores dfuDNLOAD_SYNC and leaves
\* op, op_ofs, rd and addr_prog (and the rest of the writer) as they were.
C9_Commit ==
  xfer.cb = "dnload" =>
    /\ xfer.len > 0
    /\ xfer.slot = g_dfu.buf.wr
    /\ \A i \in xfer.len..(BufSize - 1) : g_dfu.buf.data[xfer.slot][i] = ERASED
    /\ LET g2 == dfu_dnload_done_cb(g_dfu)
       IN /\ g2.buf.wr = 1 - g_dfu.buf.wr
          /\ g2.buf.used = g_dfu.buf.used + 1
          /\ g2.state = "dfuDNLOAD_SYNC"
          /\ g2.buf.rd = g_dfu.buf.rd
          /\ g2.buf.data = g_dfu.buf.data
          /\ g2.flash = g_dfu.flash
          /\ g2.status = g_dfu.status

\* a transfer shorter than the slot is in progress while the writer works
\* on the buffer committed before it
C9_Witness ==
  /\ xfer.cb = "dnload"
  /\ xfer.len < BufSize
  /\ g_dfu.buf.used = 1
  /\ g_dfu.flash.op = "FL_PROGRAM"
  /\ dfu_dnload_done_cb(g_dfu).buf.used = 2

\* C10: a DNLOAD with wLength == 0, where the table allows DNLOAD, stores
\* dfuMANIFEST_SYNC and changes nothing else.
C10_LastDnload ==
  "DNLOAD" \in GatingTable[g_dfu.state] =>
    LET res == dfu_ctrl_req(Cur, "DNLOAD", 0)
    IN /\ res.resp = "USB_FND_SUCCESS"
       /\ res.xfer = NoXfer
       /\ res.m.g = [g_dfu EXCEPT !.state = "dfuMANIFEST_SYNC"]
       /\ res.m.g.buf = g_dfu.buf
       /\ res.m.g.flash = g_dfu.flash
       /\ res.m.retry = prog_retry /\ res.m.should = should /\ res.m.hw = flash

\* the last DNLOAD arrived while the writer was programming a held buffer
C10_Witness ==
  /\ g_dfu.state = "dfuMANIFEST_SYNC"
  /\ g_dfu.buf.used = 1
  /\ g_dfu.buf.wr = 1
  /\ g_dfu.flash.op = "FL_PROGRAM"

\* C11: CLRSTATUS in dfuERROR is accepted, sets (state, status) to
\* (dfuIDLE, OK) and leaves addr_recv, addr_prog, addr_read, addr_erase,
\* used, wr, rd and the writer op (and the rest of the machine) unchanged.
C11_ClrStatus ==
  g_dfu.state = "dfuERROR" =>
    LET res == dfu_ctrl_req(Cur, "CLRSTATUS", 0)
    IN /\ res.resp = "USB_FND_SUCCESS"
       /\ res.m.g.state = "dfuIDLE"
       /\ res.m.g.status = "OK"
       /\ res.m.g.flash = g_dfu.flash
       /\ res.m.g.buf = g_dfu.buf
       /\ res.m.retry = prog_retry /\ res.m.should = should /\ res.m.hw = flash
       /\ res.m.spi = <<>>

\* CLRSTATUS has cleared the error of a DNLOAD that ran past the end of the
\* zone: the state is (dfuIDLE, OK) and the receive cursor is still past it
C11_Witness ==
  /\ ZoneSelected
  /\ g_dfu.state = "dfuIDLE"
  /\ g_dfu.status = "OK"
  /\ g_dfu.flash.addr_recv > g_dfu.flash.addr_end

\* C12: a step that takes the state out of dfuERROR is an accepted
\* CLRSTATUS: it leaves the aggregate as CLRSTATUS leaves it, (dfuIDLE, OK)
\* with everything else unchanged; no other control request, SET_INTERFACE,
\* device-state change or writer tick leaves dfuERROR.
C12_OnlyClrStatus ==
  [][ (g_dfu.state = "dfuERROR" /\ g_dfu'.state # "dfuERROR")
        => g_dfu' = ctrl_clrstatus(Cur).m.g ]_vars

\* C13: an accepted ABORT changes only the DFU state, to dfuIDLE: used, wr,
\* rd, op, op_ofs and every address cursor are unchanged, and the writer
\* ticks that follow consume the held buffers exactly as they would have
\* without the ABORT.
C13_Abort ==
  "ABORT" \in GatingTable[g_dfu.state] =>
    LET res == dfu_ctrl_req(Cur, "ABORT", 0)
        d1  == dfu_drain(res.m)
        d0  == dfu_drain(Cur)
    IN /\ res.resp = "USB_FND_SUCCESS"
       /\ res.xfer = NoXfer
       /\ res.m.g = [g_dfu EXCEPT !.state = "dfuIDLE"]
       /\ res.m.g.buf = g_dfu.buf
       /\ res.m.g.flash = g_dfu.flash
       /\ res.m.retry = prog_retry /\ res.m.should = should /\ res.m.hw = flash
       /\ d1.g.buf.used = 0
       /\ d1.g = [d0.g EXCEPT !.state = "dfuIDLE"]
       /\ d1.hw = d0.hw
       /\ d1.spi = d0.spi

\* ABORT can arrive while the writer is in the middle of programming a
\* buffer, and the ticks after it program the rest and commit the buffer
C13_Witness ==
  /\ "ABORT" \in dfu_valid_req[g_dfu.state]
  /\ g_dfu.buf.used = 1
  /\ g_dfu.flash.op = "FL_PROGRAM"
  /\ g_dfu.flash.op_ofs > 0 /\ g_dfu.flash.op_ofs < g_dfu.flash.op_len
  /\ ~ flash.wp
  /\ LET d == dfu_drain(dfu_ctrl_req(Cur, "ABORT", 0).m)
     IN /\ d.g.flash.addr_prog = g_dfu.flash.addr_prog + BufSize
        /\ Len(d.spi) > 0

\* C14: SET_INTERFACE with alternate setting a of the DFU interface sets
\* the state to dfuIDLE, the four cursors to the start of zone a, addr_end
\* to its end and selected to its chip, and a get_interface after it
\* returns a; for another interface both calls return CONTINUE and
\* SET_INTERFACE changes nothing.
C14_SetInterface ==
  \A d \in IntfDescs :
    LET r  == dfu_set_intf(g_dfu, d)
        gi == dfu_get_intf(r.g, d)
    IN IF d.bInterfaceClass = 254 /\ d.bInterfaceSubClass = 1 /\ d.bInterfaceProtocol = 2
       THEN LET z == dfu_zones[d.bAlternateSetting + 1]
            IN /\ r.resp = "USB_FND_SUCCESS"
               /\ r.g.state = "dfuIDLE"
               /\ r.g.flash.addr_recv = z.start
               /\ r.g.flash.addr_read = z.start
               /\ r.g.flash.addr_prog = z.start
               /\ r.g.flash.addr_erase = z.start
               /\ r.g.flash.addr_end = z.end
               /\ r.g.flash.selected = z.flashsel
               /\ gi.resp = "USB_FND_SUCCESS"
               /\ gi.alt = <<d.bAlternateSetting>>
       ELSE /\ r.resp = "USB_FND_CONTINUE"
            /\ r.g = g_dfu
            /\ gi.resp = "USB_FND_CONTINUE"
            /\ gi.alt = <<>>

\* the second zone was selected after an upload had moved the read cursor
\* of the first
C14_Witness ==
  /\ g_dfu.alt = 1
  /\ g_dfu.state = "dfuIDLE"
  /\ g_dfu.flash.addr_read = dfu_zones[2].start
  /\ g_dfu.flash.addr_end = dfu_zones[2].end
  /\ g_dfu.flash.selected = "FLASHCHIP_CART"
  /\ hist.nData > 0
  /\ dfu_get_intf(g_dfu, CHOOSE d \in IntfDescs : IsDfuIntf(d)).alt = <<1>>

\* C15: an accepted UPLOAD returns exactly min(wLength, addr_end -
\* addr_read) bytes, those of the flash from addr_read on, and advances
\* addr_read by that count; with addr_read == addr_end it returns no byte
\* and reads no flash; once a zone is selected, start <= addr_read <=
\* addr_end in every reachable state.
C15_Upload ==
  /\ ZoneSelected =>
       /\ Zone.start <= g_dfu.flash.addr_read
       /\ g_dfu.flash.addr_read <= g_dfu.flash.addr_end
  /\ "UPLOAD" \in GatingTable[g_dfu.state] =>
       \A w \in 0..BufSize :
         LET res  == dfu_ctrl_req(Cur, "UPLOAD", w)
             room == g_dfu.flash.addr_end - g_dfu.flash.addr_read
             n    == IF w < room THEN w ELSE room
         IN /\ res.resp = "USB_FND_SUCCESS"
            /\ Len(res.reply) = n
            /\ \A i \in 1..n :
                 res.reply[i] =
                   flash.mem[flash.sel][FlashAddr(g_dfu.flash.addr_read + i - 1)]
            /\ res.m.g.flash.addr_read = g_dfu.flash.addr_read + n
            /\ res.m.spi = IF n = 0 THEN <<>> ELSE <<"read">>
            /\ res.m.hw = flash

\* the read cursor stands one byte before the end of the zone, where an
\* UPLOAD of a whole buffer is cut to one byte
C15_Witness ==
  /\ ZoneSelected
  /\ g_dfu.state = "dfuIDLE"
  /\ g_dfu.flash.addr_end - g_dfu.flash.addr_read = 1
  /\ Len(dfu_ctrl_req(Cur, "UPLOAD", BufSize).reply) = 1

\* the flash of the selected zone holds, from addr_prog on, the bytes of
\* the slot the writer reads
RegionEqualsBuf ==
  \A i \in 0..(BufSize - 1) :
     flash.mem[g_dfu.flash.selected][FlashAddr(g_dfu.flash.addr_prog + i)]
       = g_dfu.buf.data[g_dfu.buf.rd][i]

C17_RetryExhausted ==
  \A sr \in {0, 1} :
    ( /\ prog_retry = 0
      /\ \/ g_dfu.flash.op = "FL_IDLE" /\ g_dfu.buf.used # 0
         \/ g_dfu.flash.op # "FL_IDLE" /\ sr = 0 )
    => LET m == dfu_tick(Cur, sr)
       IN /\ m.g.flash.op = "FL_IDLE"
          /\ m.g.buf.rd = 1 - g_dfu.buf.rd
          /\ m.g.buf.used = g_dfu.buf.used - 1
          /\ m.reboots = 1
          /\ m.g.flash.addr_prog = g_dfu.flash.addr_prog
          /\ m.spi = <<>>
          /\ m.hw.mem = flash.mem
          /\ m.retry = 0

\* the last retry for a held buffer has just been used up
C17_Witness ==
  /\ prog_retry = 0
  /\ g_dfu.buf.used >= 1
  /\ ~ hist.exhausted
  /\ dfu_tick(Cur, 0).reboots = 1

\* ---- the verify transfer (under SpecVerify) ----
\* a verify has run; the expected bytes handed in, the bytes the flash
\* returned, and the caller's buffer after the transfer
Verified == Len(hist.sent) = 1
VExpected == hist.sent[1]
VActual == [i \in 1..Len(VExpected) |-> flash.mem[flash.sel][FlashAddr(dfu_zones[1].start + i - 1)]]
VBuffer == [i \in 1..Len(VExpected) |-> g_dfu.buf.data[0][i - 1]]

\* bit k of the byte x
BitOf(x, k) == (x \div (2 ^ k)) % 2

\* some bit wanted as 1 in byte i is 0 in the flash: (e & a) != e
NeedsErase(i) ==
  \E k \in 0..7 : BitOf(VExpected[i], k) = 1 /\ BitOf(VActual[i], k) = 0

AnyNeedsErase == \E i \in 1..Len(VExpected) : NeedsErase(i)
AnyDiffers == \E i \in 1..Len(VExpected) : VExpected[i] # VActual[i]
AnyNotErased == \E i \in 1..Len(VExpected) : VExpected[i] # 255

\* C18 as stated: the verify transfer returns only 0, 2 or 3, never 1.
C18_NeverOne == Verified => should \in {0, 2, 3}

\* C18 amended: the verify transfer returns 0, 1, 2 or 3, and returns 1
\* exactly when some byte needs an erase and every expected byte is 0xFF.
C18_OneIffErasedExpected ==
  Verified =>
    /\ should \in {0, 1, 2, 3}
    /\ (should = 1) <=> (AnyNeedsErase /\ ~ AnyNotErased)

\* an all-0xFF buffer was verified against flash that is not erased
C18_Witness ==
  /\ Verified
  /\ Len(VExpected) = BufSize
  /\ ~ AnyNotErased
  /\ AnyNeedsErase
  /\ should = 1

\* C19 as stated: bit 0 of the result is set iff some byte has (e & a) != e,
\* bit 1 iff some byte has e != a, the result is 0 iff the two are equal,
\* and the expected buffer is not modified.
C19_Classification ==
  Verified =>
    /\ (should % 2 = 1) <=> AnyNeedsErase
    /\ ((should \div 2) % 2 = 1) <=> AnyDiffers
    /\ (should = 0) <=> (VExpected = VActual)
    /\ VBuffer = VExpected

\* C19 amended: bit 0 is set iff some byte has (e & a) != e; bit 1 is set
\* iff some byte has e != a when bit 0 is clear, and iff some expected byte
\* is not 0xFF when bit 0 is set; the result is 0 iff the two are equal; the
\* expected buffer is not modified.
C19_ClassificationAfterErase ==
  Verified =>
    /\ (should % 2 = 1) <=> AnyNeedsErase
    /\ ((should \div 2) % 2 = 1) <=>
          IF AnyNeedsErase THEN AnyNotErased ELSE AnyDiffers
    /\ (should = 0) <=> (VExpected = VActual)
    /\ VBuffer = VExpected

\* a buffer whose first byte differs from the flash and whose last byte
\* equals it was verified: write needed, no erase needed
C19_Witness ==
  /\ Verified
  /\ Len(VExpected) = BufSize
  /\ VExpected[1] # VActual[1]
  /\ VExpected[BufSize] = VActual[BufSize]
  /\ ~ AnyNeedsErase
  /\ should = 2

\* C20: the sector erases plus the completed programming passes spent on a
\* buffer, from the tick that starts it until it is released, never exceed
\* 4, and prog_retry stays within 0..4; a tick takes one from prog_retry
\* for the erase it issues and one for the programming pass it completes,
\* and prog_retry goes back to 4 only in the tick that commits the buffer.
C20_RetryBound ==
  /\ prog_retry \in 0..4
  /\ hist.attempts <= 4
  /\ ~ hist.overrun
  /\ ~ hist.exhausted => hist.attempts + prog_retry = 4
  /\ \A sr \in {0, 1} :
       LET m == dfu_tick(Cur, sr)
           erases == Erases(m.spi)
           pass   == IF PassDone(Cur, m) THEN 1 ELSE 0
           commit == Released(Cur, m) /\ m.reboots = 0
       IN /\ erases + pass <= 1
          /\ m.retry = IF commit THEN 4 ELSE prog_retry - erases - pass
          /\ (m.retry > prog_retry) => commit

\* four erases were spent on one buffer of a write-protected flash: the
\* last verify still asks for an erase and no retry is left
C20_Witness ==
  /\ flash.wp
  /\ hist.attempts = 4
  /\ prog_retry = 0
  /\ should % 2 = 1
  /\ g_dfu.flash.op = "FL_ERASE"
  /\ g_dfu.buf.used >= 1

\* ---- the writer's flash commands ----
\* C21 as stated: one invocation of the writer tick issues at most one of
\* verify read, sector erase and page program.
C21_OneOperation ==
  \A sr \in {0, 1} : Len(dfu_tick(Cur, sr).spi) <= 1

\* C21 amended: one invocation of the writer tick issues at most one verify
\* read and, after it, at most one command that makes the flash busy, a
\* sector erase or a page program; never an erase and a program, never two
\* of a kind.
C21_VerifyThenOneCommand ==
  \A sr \in {0, 1} :
    dfu_tick(Cur, sr).spi \in
      {<<>>, <<"verify">>, <<"program">>, <<"verify", "erase">>, <<"verify", "program">>}

\* a tick that verifies the held buffer, finds no erase needed and programs
\* its first page in the same invocation
C21_Witness ==
  /\ g_dfu.buf.used >= 1
  /\ g_dfu.flash.op = "FL_IDLE"
  /\ dfu_tick(Cur, 0).spi = <<"verify", "program">>
  /\ dfu_tick(Cur, 0).g.flash.op_ofs = PageSize

\* C22: every page program of the writer has 1 <= len <= page size,
\* targets addr_prog + op_ofs and stays inside one page; op_ofs never
\* exceeds op_len; a programming pass programs the bytes from addr_prog to
\* addr_prog + buffer size, all of them and each once.
C22_PageProgram ==
  /\ g_dfu.flash.op_ofs <= g_dfu.flash.op_len
  /\ ~ hist.passbad
  /\ \A sr \in {0, 1} :
       LET m   == dfu_tick(Cur, sr)
           ofs == IF g_dfu.flash.op = "FL_IDLE" THEN 0 ELSE g_dfu.flash.op_ofs
       IN \A k \in DOMAIN m.io :
            m.io[k].op = "program" =>
              /\ m.io[k].len >= 1
              /\ m.io[k].len <= PageSize
              /\ m.io[k].addr = g_dfu.flash.addr_prog + ofs
              /\ m.io[k].addr \div PageSize
                   = (m.io[k].addr + m.io[k].len - 1) \div PageSize
              /\ m.g.flash.op_ofs = ofs + m.io[k].len

\* C23: the data phase of an accepted DNLOAD never targets a slot that
\* holds a committed buffer the writer has not released: while it is in
\* progress used < 2, and the slot being filled is not the slot at rd that
\* the writer verifies and programs.
C23_SlotFree ==
  xfer.cb = "dnload" =>
    /\ g_dfu.buf.used < 2
    /\ g_dfu.buf.used = 1 => xfer.slot # g_dfu.buf.rd

\* C24: every sector erase and every page program of the writer is on the
\* chip of the active zone and covers only addresses from zone.start up to,
\* not including, zone.end.
C24_InsideZone ==
  \A sr \in {0, 1} :
    LET m == dfu_tick(Cur, sr)
    IN \A k \in DOMAIN m.io :
         /\ m.io[k].chip = Zone.flashsel
         /\ m.io[k].addr >= Zone.start
         /\ m.io[k].addr + m.io[k].len <= Zone.end

\* C25: the writer gives a buffer up (slot released, addr_prog not advanced,
\* reboot hook called) only when the flash from addr_prog on differs from
\* the slot at rd; when they are equal as the writer comes to the held
\* buffer, after whatever attempts, the buffer is committed and addr_prog
\* advanced.
C25_GiveUpOnlyOnMismatch ==
  ( /\ g_dfu.buf.used >= 1
    /\ g_dfu.flash.op \in {"FL_IDLE", "FL_ERASE"}
    /\ RegionEqualsBuf )
  => LET m == dfu_tick(Cur, 0)
     IN /\ m.reboots = 0
        /\ m.g.buf.used = g_dfu.buf.used - 1
        /\ m.g.flash.addr_prog = g_dfu.flash.addr_prog + BufSize

\* C26: whenever the stored state is not dfuERROR the stored status is OK.
C26_StatusOk ==
  g_dfu.state # "dfuERROR" => g_dfu.status = "OK"

\* the states the code stores in g_dfu.state
StoredStates ==
  {"appDETACH", "dfuIDLE", "dfuDNLOAD_SYNC", "dfuDNLOAD_IDLE",
   "dfuMANIFEST_SYNC", "dfuERROR"}

\* C27: the stored DFU state is always one of appDETACH, dfuIDLE,
\* dfuDNLOAD_SYNC, dfuDNLOAD_IDLE, dfuMANIFEST_SYNC and dfuERROR; an accepted
\* UPLOAD leaves the state as it was; GETSTATE reports the stored state and
\* GETSTATUS reports a stored state or dfuDNBUSY, dfuDNBUSY only while the
\* stored state stays dfuDNLOAD_SYNC.
C27_StoredStates ==
  /\ g_dfu.state \in StoredStates
  /\ "UPLOAD" \in dfu_valid_req[g_dfu.state] =>
       \A w \in 0..BufSize :
         /\ dfu_ctrl_req(Cur, "UPLOAD", w).resp = "USB_FND_SUCCESS"
         /\ dfu_ctrl_req(Cur, "UPLOAD", w).m.g.state = g_dfu.state
  /\ \A r \in Range(DfuRequests) : \A w \in 0..BufSize :
       dfu_ctrl_req(Cur, r, w).m.g.state \in StoredStates
  /\ "GETSTATE" \in dfu_valid_req[g_dfu.state] =>
       dfu_ctrl_req(Cur, "GETSTATE", 0).reply = <<g_dfu.state>>
  /\ "GETSTATUS" \in dfu_valid_req[g_dfu.state] =>
       LET res == dfu_ctrl_req(Cur, "GETSTATUS", 0)
       IN /\ res.reply[5] \in StoredStates \cup {"dfuDNBUSY"}
          /\ res.reply[5] = "dfuDNBUSY" =>
                /\ g_dfu.state = "dfuDNLOAD_SYNC"
                /\ res.m.g.state = "dfuDNLOAD_SYNC"
          /\ res.reply[5] # "dfuDNBUSY" => res.reply[5] = res.m.g.state

\* an UPLOAD has been accepted in dfuIDLE: the read cursor has left the
\* start of the zone and the state is still dfuIDLE, where the next UPLOAD
\* is accepted again
C27_Witness ==
  /\ ZoneSelected
  /\ g_dfu.state = "dfuIDLE"
  /\ g_dfu.flash.addr_read > Zone.start
  /\ g_dfu.flash.addr_read < g_dfu.flash.addr_end
  /\ hist.nData >= 1
  /\ dfu_ctrl_req(Cur, "UPLOAD", 1).m.g.state = "dfuIDLE"

\* the receive cursor stands past the end of the selected zone
PastEnd(g) == g.flash.addr_end # 0 /\ g.flash.addr_recv > g.flash.addr_end

\* C28: a DNLOAD rejected for running past addr_end leaves the receive
\* cursor past addr_end; after CLRSTATUS every DNLOAD with wLength > 0 is
\* rejected again into dfuERROR with no buffer committed; and the cursor
\* stays past addr_end through every step that is not a SET_INTERFACE.
C28_RejectedAgain ==
  /\ [] /\ "DNLOAD" \in dfu_valid_req[g_dfu.state] /\ ZoneSelected =>
            \A w \in 1..BufSize :
              LET res == dfu_ctrl_req(Cur, "DNLOAD", w)
                  clr == dfu_ctrl_req(res.m, "CLRSTATUS", 0)
              IN res.resp = "USB_FND_ERROR" =>
                   /\ PastEnd(res.m.g)
                   /\ clr.resp = "USB_FND_SUCCESS"
                   /\ clr.m.g.state = "dfuIDLE"
                   /\ \A w2 \in 1..BufSize :
                        LET again == dfu_ctrl_req(clr.m, "DNLOAD", w2)
                        IN /\ again.resp = "USB_FND_ERROR"
                           /\ again.xfer = NoXfer
                           /\ again.m.g.state = "dfuERROR"
                           /\ again.m.g.buf = g_dfu.buf
                           /\ PastEnd(again.m.g)
        /\ PastEnd(g_dfu) =>
            \A w \in 1..BufSize :
              /\ dfu_ctrl_req(Cur, "DNLOAD", w).resp = "USB_FND_ERROR"
              /\ dfu_ctrl_req(Cur, "DNLOAD", w).m.g.state = "dfuERROR"
  /\ [][ PastEnd(g_dfu) =>
          \/ PastEnd(g_dfu')
          \/ \E d \in IntfDescs : SetIntf(d) ]_vars

\* a DNLOAD was rejected past the end of the zone, the error was cleared,
\* and a second DNLOAD was rejected: the cursor is further past the end
\* than one rejected transfer can take it
C28_Witness ==
  /\ g_dfu.state = "dfuERROR"
  /\ ZoneSelected
  /\ g_dfu.flash.addr_recv - g_dfu.flash.addr_end > BufSize
  /\ hist.nData = 2

\* the ticks (finding the flash ready) one buffer takes at most: each
\* attempt is an erase or a programming pass of one tick per page (the
\* last page may be a partial one) and one to close the pass, PROG_RETRY
\* attempts, and the tick that releases it
TicksPerBuffer == PROG_RETRY * (((BufSize + PageSize - 1) \div PageSize) + 1) + 1

\* n iterations at most of "while (g_dfu.buf.used) _dfu_tick();"
RECURSIVE TickN(_, _)
TickN(m, n) ==
  IF n = 0 \/ m.g.buf.used = 0 THEN m
  ELSE CHOOSE r \in {TickN(x, n - 1) : x \in {dfu_tick(m, 0)}} : TRUE

\* buffers are held or the writer is at work; nothing is held and the
\* writer is idle
Pending == g_dfu.buf.used # 0 \/ g_dfu.flash.op # "FL_IDLE"
Drained == g_dfu.buf.used = 0 /\ g_dfu.flash.op = "FL_IDLE"

\* C29: drain liveness.  From every reachable state the loop "while (used)
\* tick" ends within TicksPerBuffer ticks per held buffer, with used == 0,
\* the writer idle, and every buffer released by a commit (addr_prog moved
\* on) or by the give-up branch (reboot hook called); and when the writer
\* keeps being called and the flash does not stay busy forever, a state
\* with held buffers or a writer at work leads to used == 0 with op idle.
C29_DrainLiveness ==
  /\ [] LET m == TickN(Cur, g_dfu.buf.used * TicksPerBuffer)
        IN /\ m.g.buf.used = 0
           /\ g_dfu.buf.used # 0 => m.g.flash.op = "FL_IDLE"
           /\ m.reboots + ((m.g.flash.addr_prog - g_dfu.flash.addr_prog) \div BufSize)
                = g_dfu.buf.used
  /\ Pending ~> Drained

\* the writer has drained everything the host sent: one buffer was
\* committed (the program cursor has left the start of the zone), a later
\* one ran out of retries, nothing is held and the writer is idle
C29_Witness ==
  /\ ZoneSelected
  /\ Drained
  /\ hist.nData = MaxDnload
  /\ hist.exhausted
  /\ g_dfu.flash.addr_prog > Zone.start
  /\ xfer.cb = "none"
====
